---- MODULE Spec2Model ----
(***************************************************************************)
(* Model of the EPUB reader core: ReaderEngine (reader.js), the reader      *)
(* factory and BaseReader (reader-factory.js), PagedReader / ScrollReader,  *)
(* StateManager and DatabaseManager.saveProgress (database.js).             *)
(*                                                                         *)
(* JavaScript scheduling is modelled explicitly: every async function is a  *)
(* task with a program counter; an await on an already settled value puts   *)
(* the task at the tail of the microtask queue mq (FIFO); an await on the   *)
(* storage, the decoder or the render surface parks the task until the      *)
(* corresponding external event, which can only happen between macrotasks,  *)
(* i.e. when mq is empty.  API calls may be issued at any point.            *)
(***************************************************************************)
EXTENDS Integers, Sequences, FiniteSets, TLC

\* ------------------------------------------------------------------ bounds
MaxOpens == 2        \* open() and close() calls issued in one behaviour
MaxSwitches == 2     \* setFlow() calls issued in one behaviour
MaxNavs == 2         \* chapter-navigation calls issued in one behaviour
MaxRelocs == 1       \* 'relocated' events delivered in one behaviour
MaxOffset == 1       \* positions inside one spine document: 0..MaxOffset
MaxPages == 2        \* page requests (calls and bus events) in one behaviour
MaxFonts == 3        \* changeFontSize() calls issued in one behaviour
MaxToggles == 1      \* favourite toggles
MaxSeqRelocs == 2    \* 'relocated' events in a behaviour about their sequence

\* -------------------------------------------------------------- test data
BookIds == {1, 2}    \* the stored books with a table of contents

\* A display target / location reference.  JS uses strings (href or CFI) and
\* null/undefined; t = "undef" stands for every falsy value.
Undefined == [t |-> "undef", bk |-> 0, doc |-> "", frag |-> "", off |-> 0]
Href(d, f) == [t |-> "href", bk |-> 0, doc |-> d, frag |-> f, off |-> 0]
Cfi(b, d, o) == [t |-> "cfi", bk |-> b, doc |-> d, frag |-> "", off |-> o]
Truthy(x) == x.t # "undef"

\* x || y
Or(x, y) == IF Truthy(x) THEN x ELSE y

Item(l, h, s) == [label |-> l, href |-> h, subitems |-> s]

\* stored books that differ by the shape of their table of contents
TocIds == 10..14

\* book.navigation.toc of each stored book (labels are token sequences);
\* book 3 has documents but no table of contents
Toc(b) ==
  IF b = 1 THEN
    << Item(<<"Cover">>, Href("cover", ""), <<>>),
       Item(<<"Chapitre", "1">>, Href("c1", ""),
            << Item(<<"Section">>, Href("c1", "s1"), <<>>) >>),
       Item(<<"CHAPTER", "2">>, Href("c2", ""), <<>>) >>
  ELSE IF b = 2 THEN
    << Item(<<"Title", "Page">>, Href("t", ""), <<>>) >>
  ELSE IF b = 10 THEN
    \* five levels deep, every entry with an href
    << Item(<<"Part">>, Href("t", "l1"),
         << Item(<<"Book">>, Href("t", "l2"),
              << Item(<<"Chapitre", "1">>, Href("t", "l3"),
                   << Item(<<"Section">>, Href("t", "l4"),
                        << Item(<<"Note">>, Href("t", "l5"), <<>>) >>) >>) >>) >>),
       Item(<<"CHAPTER", "2">>, Href("t", "c2"), <<>>) >>
  ELSE IF b = 11 THEN
    \* a heading without link (epub.js gives it an empty href) over a chapter
    << Item(<<"Part">>, Undefined,
         << Item(<<"Chapitre", "1">>, Href("t", "c1"), <<>>) >>),
       Item(<<"CHAPTER", "2">>, Href("t", "c2"), <<>>) >>
  ELSE IF b = 12 THEN
    \* a chapter heading without link, nested, over its sections
    << Item(<<"Part">>, Href("t", "p1"),
         << Item(<<"Chapitre", "1">>, Undefined,
              << Item(<<"Section">>, Href("t", "s1"), <<>>) >>) >>),
       Item(<<"CHAPTER", "2">>, Href("t", "c2"), <<>>) >>
  ELSE IF b = 13 THEN
    \* no chapter-like label at any level
    << Item(<<"Cover">>, Href("t", ""), <<>>),
       Item(<<"Title", "Page">>, Href("t", "tp"),
         << Item(<<"Section">>, Href("t", "s1"), <<>>) >>) >>
  ELSE IF b = 14 THEN
    \* two parts whose chapters carry the same label
    << Item(<<"Part">>, Href("p1", ""),
         << Item(<<"Chapitre", "1">>, Href("p1", "c1"), <<>>) >>),
       Item(<<"Part">>, Href("p2", ""),
         << Item(<<"Chapitre", "1">>, Href("p2", "c1"), <<>>) >>) >>
  ELSE <<>>

\* book.spine of each stored book, in reading order
Spine(b) ==
  IF b = 1 THEN <<"cover", "c1", "c2">>
  ELSE IF b = 14 THEN <<"p1", "p2">>
  ELSE <<"t">>

InSpine(b, d) == \E i \in 1..Len(Spine(b)) : Spine(b)[i] = d

\* every location reference a render surface of book b can report
LocsOf(b) == { Cfi(b, Spine(b)[i], o) : i \in 1..Len(Spine(b)), o \in 0..MaxOffset }

\* String.prototype.toLowerCase on one token
toLowerCase(tok) ==
  CASE tok = "Chapitre" -> "chapitre"
    [] tok = "CHAPTER" -> "chapter"
    [] tok = "Cover" -> "cover"
    [] tok = "Section" -> "section"
    [] tok = "Title" -> "title"
    [] tok = "Page" -> "page"
    [] tok = "Part" -> "part"
    [] tok = "Book" -> "book"
    [] tok = "Note" -> "note"
    [] OTHER -> tok

\* label.toLowerCase().includes(marker)
includes(label, marker) == \E i \in 1..Len(label) : toLowerCase(label[i]) = marker

\* reader.js findFirstChapter
RECURSIVE findFirstChapter(_)
findFirstChapter(items) ==
  IF items = <<>> THEN Undefined
  ELSE LET item == Head(items) IN
    IF includes(item.label, "chapter") \/ includes(item.label, "chapitre")
    THEN item.href
    ELSE LET found == findFirstChapter(item.subitems) IN
         IF Truthy(found) THEN found ELSE findFirstChapter(Tail(items))

\* BaseReader._findFirstChapter
RECURSIVE _findFirstChapter(_)
_findFirstChapter(items) ==
  IF items = <<>> THEN Undefined
  ELSE LET item == Head(items) IN
    IF includes(item.label, "chapter") \/ includes(item.label, "chapitre")
    THEN item.href
    ELSE LET found == _findFirstChapter(item.subitems) IN
         IF Truthy(found) THEN found ELSE _findFirstChapter(Tail(items))

\* renderTOC's addItems: the flat chapter list
RECURSIVE addItems(_, _)
addItems(items, level) ==
  IF items = <<>> THEN <<>>
  ELSE LET item == Head(items)
           own == IF Truthy(item.href)
                  THEN << [label |-> item.label, href |-> item.href, level |-> level] >>
                  ELSE <<>>
       IN own \o addItems(item.subitems, level + 1) \o addItems(Tail(items), level)

\* chapters.findIndex(ch => ch.href === href), 0-based, -1 when absent
findIndexHref(chapters, href) ==
  IF \E i \in 1..Len(chapters) : chapters[i].href = href
  THEN (CHOOSE i \in 1..Len(chapters) :
          /\ chapters[i].href = href
          /\ \A j \in 1..(i - 1) : chapters[j].href # href) - 1
  ELSE -1

\* chapters.findIndex(ch => ch.label === chapterName)
findIndexLabel(chapters, label) ==
  IF \E i \in 1..Len(chapters) : chapters[i].label = label
  THEN (CHOOSE i \in 1..Len(chapters) :
          /\ chapters[i].label = label
          /\ \A j \in 1..(i - 1) : chapters[j].label # label) - 1
  ELSE -1

\* String.prototype.includes on document names: none of the documents of the
\* stored books is a proper substring of another
strIncludes(a, b) == a = b

\* _saveProgress's findChapter: label of the first TOC item (pre-order) whose
\* document matches the current one; <<>> is null
RECURSIVE findChapter(_, _)
findChapter(items, currentBase) ==
  IF items = <<>> THEN <<>>
  ELSE LET item == Head(items)
           itemHref == IF Truthy(item.href) THEN item.href.doc ELSE ""
       IN IF itemHref # "" /\ currentBase # ""
             /\ (strIncludes(itemHref, currentBase) \/ strIncludes(currentBase, itemHref))
          THEN item.label
          ELSE LET sub == findChapter(item.subitems, currentBase) IN
               IF sub # <<>> THEN sub ELSE findChapter(Tail(items), currentBase)

\* Fractions are in thousandths.  Missing stands for a field that is absent
\* (undefined), NaN for the result of arithmetic on it.
Missing == -100000
NaN == -99999

\* the fraction of book b read at location l, as the render surface computes it
Fraction(b, l) ==
  LET i == CHOOSE k \in 1..Len(Spine(b)) : Spine(b)[k] = l.doc
      num == (i - 1) * (MaxOffset + 1) + l.off
      den == Len(Spine(b)) * (MaxOffset + 1)
  IN (1000 * num) \div den

\* Math.round(f * 100): to the nearest integer, halves upwards
mathRound100(f) == (f + 5) \div 10

\* BaseReader._updateProgressIndicator:
\* Math.round((location.percentage || 0) * 100)
basePercent(location) ==
  IF location.percentage = Missing THEN 0
  ELSE mathRound100(location.percentage)

\* PagedReader._updateProgressIndicator:
\* Math.round(location.start.percentage * 100) (this.book.locations is set)
pagedPercent(location) ==
  IF location.start.percentage = Missing THEN NaN
  ELSE mathRound100(location.start.percentage)

\* the percentage computed by _updateProgressIndicator of a reader of the
\* given mode
progressPercent(flow, location) ==
  IF flow = "paginated" THEN pagedPercent(location) ELSE basePercent(location)

\* fractions a 'relocated' payload can carry in either of its fields
Fractions == { Missing, -500, 0, 4, 375, 1000, 1500 }
\* ------------------------------------------------------------------- state
VARIABLES
  currentReader,  \* reader-factory.js: current reader (0 = null)
  sharedBook,     \* reader-factory.js: shared epub.js book (0 = null)
  book,           \* reader.js: module variable book (0 = null)
  isNavigating,   \* ReaderEngine.isNavigating
  readers,        \* every ScrollReader / PagedReader constructed so far
  handles,        \* every epub.js Book created by window.ePub()
  renditions,     \* every render surface created by book.renderTo()
  state,          \* StateManager's state object
  localStorage,   \* localStorage: the READER_FLOW and FONT_SIZE keys
  db,             \* the stored book records
  tasks,          \* every async call started so far, with its position
  mq,             \* the microtask queue: task ids, FIFO
  events,         \* EventBus.emit so far: count per event, and whether the
                  \* last reader:opening is still unanswered
  nreloc          \* number of 'relocated' events delivered

vars == << currentReader, sharedBook, book, isNavigating, readers, handles,
           renditions, state, localStorage, db, tasks, mq, events, nreloc >>

Flows == {"scrolled", "paginated"}

EventNames ==
  { "reader:opening", "reader:opened", "reader:closed", "reader:toc-ready",
    "reader:flow-changed", "chapter:changed",
    "status:Livre non trouve", "status:Erreur lors de l'ouverture",
    "status:Erreur lors du chargement", "status:Livre charge",
    "status:Reprise de la lecture", "status:Mode active" }

\* EventBus.emit(e), as seen by an observer of the bus
Emit(ev, e) ==
  [ count |-> [ev.count EXCEPT ![e] = @ + 1],
    unanswered |-> IF e = "reader:opening" THEN TRUE
                   ELSE IF e \in {"reader:opened", "reader:closed"} THEN FALSE
                   ELSE ev.unanswered ]


\* Config.FONT
FONT_MIN == 50
FONT_MAX == 200
FONT_DEFAULT == 100
FONT_STEP == 10

\* Config.READER_FLOW_DEFAULT
READER_FLOW_DEFAULT == "scrolled"
MOBILE_BREAKPOINT == 768
SPREAD_MIN_WIDTH == 1200

\* the state object of StateManager, reader part; localStorage is empty on
\* the first launch
InitialState(flow) ==
  [ currentBookId |-> 0, currentChapter |-> <<>>, currentChapterIndex |-> -1,
    chapters |-> <<>>, readerFlow |-> flow, readerProgress |-> -1,
    fontSize |-> FONT_DEFAULT ]

\* the stored records: book 2 has a saved position, book 1 has none
InitialDb ==
  [ b \in BookIds \cup {3} \cup TocIds |->
      [ epubData |-> b,
        lastCFI |-> IF b = 2 THEN Cfi(2, "t", 1) ELSE Undefined,
        lastChapter |-> <<>>,
        \* favoritedAt: 0 = null, 1 = a timestamp; book 2 starts as a favourite
        favoritedAt |-> IF b = 2 THEN 1 ELSE 0 ] ]

Init ==
  /\ currentReader = 0
  /\ sharedBook = 0
  /\ book = 0
  /\ isNavigating = FALSE
  /\ readers = <<>>
  /\ handles = <<>>
  /\ renditions = <<>>
  /\ localStorage = [ readerFlow |-> "", fontSize |-> 0 ]
  /\ state = InitialState(READER_FLOW_DEFAULT)
  /\ db = InitialDb
  /\ tasks = <<>>
  /\ mq = <<>>
  /\ events = [ count |-> [e \in EventNames |-> 0], unanswered |-> FALSE ]
  /\ nreloc = 0

\* ----------------------------------------------------------------- helpers
Settled(t) == tasks[t].pc \in {"done", "failed"}
IsCall(t) == tasks[t].kind \notin {"save", "fav"}
NCalls(kinds) == Cardinality({ t \in DOMAIN tasks : tasks[t].kind \in kinds })
Quiet == \A t \in DOMAIN tasks : IsCall(t) => Settled(t)

\* a mode lookup that forgets the preference
getFlow_default == "scrolled"

\* getFlow() of the reader factory
getFlow == IF state.readerFlow # "" THEN state.readerFlow ELSE "scrolled"

\* the rendition of the current reader (0 = none)
CurrentSurface ==
  IF currentReader = 0 THEN 0 ELSE readers[currentReader].rendition

NoRecord ==
  [ epubData |-> 0, lastCFI |-> Undefined, lastChapter |-> <<>>, favoritedAt |-> 0 ]

NewTask(kind, pc) ==
  [ kind |-> kind, pc |-> pc, id |-> 0, flow |-> "", href |-> Undefined,
    cfi |-> Undefined, data |-> 0, wait |-> 0, reader |-> 0, ok |-> TRUE,
    delta |-> 0,
    name |-> <<>>, snap |-> NoRecord,
    \* observation only: the situation when the call was issued
    quiet |-> Quiet, prev |-> CurrentSurface, rc |-> nreloc,
    loc0 |-> IF CurrentSurface # 0 THEN renditions[CurrentSurface].loc
                                   ELSE Undefined,
    idx0 |-> state.currentChapterIndex, did |-> FALSE,
    fs0 |-> state.fontSize,
    \* observation only: the surface a 'relocated' event came from, and
    \* whether initialize() entered its catch block
    src |-> 0, caught |-> FALSE,
    \* observation only: the percentage _updateProgressIndicator computed
    pct |-> 0 ]

\* the promise of task t settles: its locals are dead
Finish(t, pc) ==
  [tasks EXCEPT ![t].pc = pc, ![t].data = 0, ![t].wait = 0, ![t].reader = 0,
                ![t].name = <<>>, ![t].snap = NoRecord]

\* new ScrollReader() / new PagedReader()
NewReader(flow) == [ flow |-> flow, book |-> 0, rendition |-> 0, nav |-> FALSE ]

\* window.innerWidth: the values around the two thresholds, and the width of
\* the behaviours that do not vary it
Widths == { 320, MOBILE_BREAKPOINT, MOBILE_BREAKPOINT + 1,
            SPREAD_MIN_WIDTH - 1, SPREAD_MIN_WIDTH, SPREAD_MIN_WIDTH + 1 }
innerWidth == 1024

\* ui-factory.js isMobile()
isMobile(w) == w <= MOBILE_BREAKPOINT

\* the spread option passed to book.renderTo by PagedReader._createRendition
\* ('paginated') and ScrollReader._createRendition ('scrolled')
spreadOption(flow, w) ==
  IF flow = "paginated"
  THEN IF ~isMobile(w) /\ w >= SPREAD_MIN_WIDTH THEN "auto" ELSE "none"
  ELSE "none"

\* book.renderTo('viewer', ...) followed by rendition.display(target) for task t
NewRenditionAt(h, flow, target, t, w) ==
  [ h |-> h, flow |-> flow, destroyed |-> FALSE, loc |-> Undefined,
    \* the spread option of _createRendition, and (observation only) the
    \* viewport width it was computed from
    spread |-> spreadOption(flow, w), width |-> w,
    listener |-> 0, start |-> target,
    q |-> << [target |-> target, waiter |-> t, by |-> 0] >>,
    \* rendition.next() / rendition.prev() calls received
    nexts |-> 0, prevs |-> 0,
    \* the '.chapter-navigation' blocks of the rendered document, in
    \* document order
    nav |-> <<>> ]

NewRendition(h, flow, target, t) == NewRenditionAt(h, flow, target, t, innerWidth)

\* BaseReader._injectChapterNavigation on a document holding the blocks
\* content: the first block is removed, a new one is appended when it has a
\* control
injectChapterNavigation(content, chapters, currentIndex) ==
  LET removed == IF content = <<>> THEN <<>> ELSE Tail(content)
      hasPrev == currentIndex > 0
      hasNext == currentIndex < Len(chapters) - 1
  IN IF hasPrev \/ hasNext
     THEN Append(removed, [prev |-> hasPrev, next |-> hasNext])
     ELSE removed

\* the reader that created render surface x and still holds it (0 = none)
OwnerOf(rs, x) ==
  IF \E r \in DOMAIN rs : rs[r].rendition = x
  THEN CHOOSE r \in DOMAIN rs : rs[r].rendition = x
  ELSE 0

\* _injectChapterNavigation called on reader r: document.querySelector(
\* '#viewer iframe') is the document of the current reader's surface, present
\* once that surface has displayed
InjectBy(xs, r) ==
  IF r = 0 \/ readers[r].rendition = 0 \/ Len(state.chapters) = 0
     \/ CurrentSurface = 0
  THEN xs
  ELSE IF ~Truthy(xs[CurrentSurface].loc) THEN xs
  ELSE [xs EXCEPT ![CurrentSurface].nav =
          injectChapterNavigation(@, state.chapters, state.currentChapterIndex)]

\* a teardown that leaves the surface alive
destroyRendition_skipped(xs, x) == xs

\* rendition.destroy()
destroyRendition(xs, x) ==
  IF x = 0 THEN xs
  ELSE [xs EXCEPT ![x].destroyed = TRUE, ![x].loc = Undefined, ![x].listener = 0]

\* BaseReader.destroy / PagedReader.destroy: the reader's own fields.
\* PagedReader.destroy passes the handler function to EventBus.off(event, id),
\* which deletes by listener id: the bus listeners (nav) stay registered
destroyReader(rs, r) ==
  [rs EXCEPT ![r].rendition = 0, ![r].book = 0]

\* reader-factory.js destroy(), up to its await: called with the values the
\* module variables have at that point
destroyFactory_start(cr, sb, rs, xs) ==
  /\ readers' = IF cr # 0 THEN destroyReader(rs, cr) ELSE rs
  /\ renditions' = IF cr # 0 THEN destroyRendition(xs, rs[cr].rendition) ELSE xs
  /\ sharedBook' = IF cr # 0 THEN sb ELSE 0
  /\ currentReader' = cr

\* book.navigation?.toc || [] of handle h: the navigation exists once the
\* book is ready and until it is destroyed
TocOf(h) ==
  IF h # 0 /\ handles[h].st = "ready" /\ ~handles[h].destroyed
  THEN Toc(handles[h].content) ELSE <<>>

\* the task parked on "await book.opened" of handle h, if any: only the
\* call that created the handle awaits this promise
OpenedWaiters(h) ==
  SelectSeq([i \in 1..Len(tasks) |-> i],
            LAMBDA i : tasks[i].pc = "i_opened" /\ tasks[i].wait = h)

\* the catch block of ReaderEngine.initialize, run by task t at the head of mq
Catch(t, cr, sb, rs, xs) ==
  /\ destroyFactory_start(cr, sb, rs, xs)
  /\ events' = Emit(events, "status:Erreur lors du chargement")
  /\ IF cr # 0
     THEN /\ tasks' = [tasks EXCEPT ![t].pc = "c_df", ![t].ok = FALSE,
                                    ![t].caught = TRUE]
          /\ mq' = Tail(mq) \o <<t, t>>
     ELSE /\ tasks' = [tasks EXCEPT ![t].pc = "o_ret", ![t].ok = FALSE,
                                    ![t].caught = TRUE]
          /\ mq' = Tail(mq) \o <<t>>

Running(t, pc) == mq # <<>> /\ Head(mq) = t /\ tasks[t].pc = pc

\* ------------------------------------------------------- ReaderEngine.open
\* open(id) up to await DatabaseManager.get(id)
Open(id) ==
  /\ NCalls({"open", "close"}) < MaxOpens
  /\ mq = <<>>
  /\ tasks' = Append(tasks, [NewTask("open", "o_get") EXCEPT !.id = id])
  /\ UNCHANGED << currentReader, sharedBook, book, isNavigating, readers, handles,
                  renditions, state, localStorage, db, mq, events, nreloc >>

\* DatabaseManager.get(id) settles (ok = FALSE: the request fails)
DbGetDone(t, ok) ==
  /\ mq = <<>>
  /\ tasks[t].pc = "o_get"
  /\ LET id == tasks[t].id
         found == id \in DOMAIN db
     IN tasks' = [tasks EXCEPT ![t].pc = "o_got", ![t].ok = ok,
                    ![t].data = IF ok /\ found THEN db[id].epubData ELSE 0,
                    ![t].cfi = IF ok /\ found THEN db[id].lastCFI ELSE Undefined]
  /\ mq' = <<t>>
  /\ UNCHANGED << currentReader, sharedBook, book, isNavigating, readers, handles,
                  renditions, state, localStorage, db, events, nreloc >>

\* open() after the await, then initialize() up to await destroyFactory()
OpenGot(t) ==
  /\ Running(t, "o_got")
  /\ IF ~tasks[t].ok
     THEN /\ events' = Emit(events, "status:Erreur lors de l'ouverture")
          /\ tasks' = Finish(t, "done")
          /\ mq' = Tail(mq)
          /\ UNCHANGED << currentReader, sharedBook, readers, renditions, state >>
     ELSE IF tasks[t].data = 0
     THEN /\ events' = Emit(events, "status:Livre non trouve")
          /\ tasks' = Finish(t, "done")
          /\ mq' = Tail(mq)
          /\ UNCHANGED << currentReader, sharedBook, readers, renditions, state >>
     ELSE /\ state' = [state EXCEPT !.currentBookId = tasks[t].id]
          /\ events' = Emit(events, "reader:opening")
          /\ destroyFactory_start(currentReader, sharedBook, readers, renditions)
          /\ tasks' = [tasks EXCEPT ![t].pc =
                         IF currentReader # 0 THEN "i_df" ELSE "i_fin"]
          /\ mq' = Tail(mq) \o <<t>>
  /\ UNCHANGED << book, isNavigating, handles, localStorage, db, nreloc >>

\* reader-factory.js destroy() after await currentReader.destroy()
DestroyCont(t) ==
  /\ mq # <<>> /\ Head(mq) = t
  /\ tasks[t].pc \in {"i_df", "cl_df", "c_df"}
  /\ currentReader' = 0
  /\ sharedBook' = 0
  /\ tasks' = [tasks EXCEPT ![t].pc =
                 CASE @ = "i_df" -> "i_fin" [] @ = "cl_df" -> "cl_fin" [] OTHER -> "o_ret"]
  /\ mq' = IF tasks[t].pc = "c_df" THEN Tail(mq) ELSE Tail(mq) \o <<t>>
  /\ UNCHANGED << book, isNavigating, readers, handles, renditions, state,
                  localStorage, db, events, nreloc >>

\* initialize() from "if (book)" to await book.opened
InitFin(t) ==
  /\ Running(t, "i_fin")
  /\ handles' = Append(IF book # 0 THEN [handles EXCEPT ![book].destroyed = TRUE]
                                   ELSE handles,
                       [content |-> tasks[t].data, st |-> "opening",
                        destroyed |-> FALSE, rw |-> <<>>])
  /\ book' = Len(handles) + 1
  /\ tasks' = [tasks EXCEPT ![t].pc = "i_opened", ![t].wait = Len(handles) + 1]
  /\ mq' = Tail(mq)
  /\ UNCHANGED << currentReader, sharedBook, isNavigating, readers, renditions,
                  state, localStorage, db, events, nreloc >>

\* the decoder: book.opened resolves.  A destroyed book's promises are not
\* cancelled by the code; whether they still settle is left open.
BookOpened(h) ==
  /\ mq = <<>>
  /\ handles[h].st = "opening"
  /\ OpenedWaiters(h) \o handles[h].rw # <<>>
  /\ handles' = [handles EXCEPT ![h].st = "opened"]
  /\ mq' = OpenedWaiters(h)
  /\ UNCHANGED << currentReader, sharedBook, book, isNavigating, readers, renditions,
                  state, localStorage, db, tasks, events, nreloc >>

\* the decoder: book.ready resolves
BookReady(h) ==
  /\ mq = <<>>
  /\ handles[h].st = "opened"
  /\ handles[h].rw # <<>>
  /\ handles' = [handles EXCEPT ![h].st = "ready", ![h].rw = <<>>]
  /\ mq' = handles[h].rw
  /\ UNCHANGED << currentReader, sharedBook, book, isNavigating, readers, renditions,
                  state, localStorage, db, tasks, events, nreloc >>

\* the decoder fails: the pending promise of the book rejects
BookFailed(h) ==
  /\ mq = <<>>
  /\ handles[h].st \in {"opening", "opened"}
  /\ OpenedWaiters(h) \o handles[h].rw # <<>>
  /\ handles' = [handles EXCEPT ![h].st = "failed", ![h].rw = <<>>]
  /\ mq' = OpenedWaiters(h) \o handles[h].rw
  /\ UNCHANGED << currentReader, sharedBook, book, isNavigating, readers, renditions,
                  state, localStorage, db, tasks, events, nreloc >>

\* initialize() after await book.opened, up to await book.ready
InitOpened(t) ==
  /\ Running(t, "i_opened")
  /\ IF handles[tasks[t].wait].st = "failed" \/ book = 0
     THEN /\ Catch(t, currentReader, sharedBook, readers, renditions)
          /\ UNCHANGED << state, handles >>
     ELSE /\ tasks' = [tasks EXCEPT ![t].pc = "i_ready", ![t].wait = book]
          /\ IF handles[book].st \in {"ready", "failed"}
             THEN /\ mq' = Tail(mq) \o <<t>>
                  /\ UNCHANGED handles
             ELSE /\ mq' = Tail(mq)
                  /\ handles' = [handles EXCEPT ![book].rw = Append(@, t)]
          /\ UNCHANGED << currentReader, sharedBook, readers, renditions, state, events >>
  /\ UNCHANGED << book, isNavigating, localStorage, db, nreloc >>

\* a start location that ignores the saved position
startLocationOf_first(savedCFI, toc) == Or(findFirstChapter(toc), Undefined)

\* initialize(): savedCFI || firstChapter || undefined
startLocationOf(savedCFI, toc) == Or(savedCFI, Or(findFirstChapter(toc), Undefined))

\* initialize() after await book.ready, up to await rendition.display() in
\* BaseReader.init: setBook, createReader, renderTOC, reader.init
InitReadyAt(t, w) ==
  /\ Running(t, "i_ready")
  /\ LET r == Len(readers) + 1
         x == Len(renditions) + 1
         flow == getFlow
         toc == TocOf(book)
         chapters == addItems(toc, 1)
         startLocation == startLocationOf(tasks[t].cfi, toc)
         target == Or(startLocation, Or(_findFirstChapter(toc), Undefined))
     IN
     IF handles[tasks[t].wait].st = "failed"
     THEN /\ Catch(t, currentReader, sharedBook, readers, renditions)
          /\ UNCHANGED state
     ELSE IF book = 0
     THEN \* setBook(null); createReader(); book.navigation throws
          /\ Catch(t, r, 0, Append(readers, NewReader(flow)), renditions)
          /\ UNCHANGED state
     ELSE /\ sharedBook' = book
          /\ currentReader' = r
          /\ readers' = Append(readers,
                [ flow |-> flow, book |-> book, rendition |-> x,
                  nav |-> (flow = "paginated") ])
          /\ renditions' = Append(renditions, NewRenditionAt(book, flow, target, t, w))
          /\ state' = [state EXCEPT !.chapters = chapters,
                         !.currentChapterIndex = IF chapters # <<>> THEN 0 ELSE @]
          /\ events' = Emit(events, "reader:toc-ready")
          /\ tasks' = [tasks EXCEPT ![t].pc = "i_display", ![t].reader = r, ![t].wait = x]
          /\ mq' = Tail(mq)
  /\ UNCHANGED << book, isNavigating, handles, localStorage, db, nreloc >>

InitReady(t) == InitReadyAt(t, innerWidth)

\* position of document d in the spine of book b
SpineIndex(b, d) == CHOOSE i \in 1..Len(Spine(b)) : Spine(b)[i] = d

\* whether a surface of book b can display the target
CanShow(b, target) ==
  CASE target.t = "undef" -> TRUE
    [] target.t = "href" -> InSpine(b, target.doc)
    [] OTHER -> target.bk = b \/ SpineIndex(target.bk, target.doc) <= Len(Spine(b))

\* the location a surface of book b reports once display(target) has settled:
\* the target itself, the start of the document of an href, the start of the
\* book for undefined; a CFI of another book addresses the same spine position
ShownLoc(b, target) ==
  CASE target.t = "undef" -> Cfi(b, Spine(b)[1], 0)
    [] target.t = "href" -> Cfi(b, target.doc, 0)
    [] OTHER -> IF target.bk = b THEN target
                ELSE Cfi(b, Spine(b)[SpineIndex(target.bk, target.doc)], target.off)

\* the render surface settles the oldest pending display() of rendition x
DisplaySettle(x, ok) ==
  /\ mq = <<>>
  /\ renditions[x].q # <<>>
  /\ LET req == Head(renditions[x].q)
         b == handles[renditions[x].h].content
     IN /\ ok => CanShow(b, req.target)
        /\ renditions[x].destroyed => req.waiter # 0
        /\ renditions' =
             IF ok
             THEN \* the section is rendered into a new document; the
                  \* 'rendered' handler of _setupModeSpecific runs
                  InjectBy([renditions EXCEPT ![x].q = Tail(@),
                                             ![x].loc = ShownLoc(b, req.target),
                                             ![x].nav = <<>>],
                           OwnerOf(readers, x))
             ELSE [renditions EXCEPT ![x].q = Tail(@)]
        /\ IF req.waiter # 0
           THEN /\ tasks' = [tasks EXCEPT ![req.waiter].ok = ok]
                /\ mq' = <<req.waiter>>
           ELSE \* an un-awaited display of a chapter navigation: its .then
                \* re-applies the theme, its .catch logs the error
                /\ tasks' = [tasks EXCEPT ![req.by].ok = ok]
                /\ UNCHANGED mq
  /\ UNCHANGED << currentReader, sharedBook, book, isNavigating, readers, handles,
                  state, localStorage, db, events, nreloc >>

\* BaseReader.init after await this.rendition.display(), called by initialize()
InitDisplay(t) ==
  /\ Running(t, "i_display")
  /\ LET r == tasks[t].reader IN
     IF ~tasks[t].ok \/ readers[r].rendition = 0
     THEN Catch(t, currentReader, sharedBook, readers, renditions)
     ELSE /\ renditions' = [renditions EXCEPT ![readers[r].rendition].listener = r]
          /\ tasks' = [tasks EXCEPT ![t].pc = "i_post"]
          /\ mq' = Tail(mq) \o <<t>>
          /\ UNCHANGED << currentReader, sharedBook, readers, events >>
  /\ UNCHANGED << book, isNavigating, handles, state, localStorage, db, nreloc >>

\* initialize() after await reader.init()
InitPost(t) ==
  /\ Running(t, "i_post")
  /\ events' = Emit(Emit(Emit(events, "reader:flow-changed"),
                              IF Truthy(tasks[t].cfi) THEN "status:Reprise de la lecture"
                                                      ELSE "status:Livre charge"),
                         "reader:opened")
  /\ tasks' = [tasks EXCEPT ![t].pc = "o_ret"]
  /\ mq' = Tail(mq) \o <<t>>
  /\ UNCHANGED << currentReader, sharedBook, book, isNavigating, readers, handles,
                  renditions, state, localStorage, db, nreloc >>

\* open() after await this.initialize(): the promise of open() settles
OpenRet(t) ==
  /\ Running(t, "o_ret")
  /\ tasks' = Finish(t, "done")
  /\ mq' = Tail(mq)
  /\ UNCHANGED << currentReader, sharedBook, book, isNavigating, readers, handles,
                  renditions, state, localStorage, db, events, nreloc >>

\* ------------------------------------------------------ ReaderEngine.close
\* close() up to await destroyFactory()
Close ==
  /\ NCalls({"open", "close"}) < MaxOpens
  /\ mq = <<>>
  /\ destroyFactory_start(currentReader, sharedBook, readers, renditions)
  /\ tasks' = Append(tasks,
                NewTask("close", IF currentReader # 0 THEN "cl_df" ELSE "cl_fin"))
  /\ mq' = Append(mq, Len(tasks) + 1)
  /\ UNCHANGED << book, isNavigating, handles, state, localStorage, db, events, nreloc >>

\* a reset that keeps the session state
resetReaderState_kept(st) == st

\* StateManager.resetReaderState
resetReaderState(st) ==
  [st EXCEPT !.currentBookId = 0, !.currentChapter = <<>>,
             !.currentChapterIndex = -1, !.chapters = <<>>]

\* close() after await destroyFactory()
CloseFin(t) ==
  /\ Running(t, "cl_fin")
  /\ handles' = IF book # 0 THEN [handles EXCEPT ![book].destroyed = TRUE] ELSE handles
  /\ book' = 0
  /\ state' = resetReaderState(state)
  /\ events' = Emit(events, "reader:closed")
  /\ tasks' = Finish(t, "done")
  /\ mq' = Tail(mq)
  /\ UNCHANGED << currentReader, sharedBook, isNavigating, readers, renditions,
                  localStorage, db, nreloc >>

\* ------------------------------------------ ReaderEngine.setFlow/switchFlow
\* a switch that captures no position
captureCFI_none == Undefined

\* switchFlow's "Sauvegarder la position actuelle"
captureCFI ==
  IF currentReader # 0 /\ readers[currentReader].rendition # 0
  THEN renditions[readers[currentReader].rendition].loc
  ELSE Undefined

\* a validation that accepts every mode
ValidFlow_any(f) == TRUE

\* ['scrolled', 'paginated'].includes(newFlow)
ValidFlow(f) == f \in Flows

\* modes passed to setFlow / switchFlow: the valid ones and an invalid one
FlowArgs == Flows \cup {"vertical"}

\* the calls that end in switchFlow
FlowKinds == {"flow", "switch", "toggle"}

\* createReader(flow): a PagedReader for 'paginated', a ScrollReader otherwise
readerMode(f) == IF f = "paginated" THEN "paginated" ELSE "scrolled"

\* a test that always finds a loaded book
noSharedBook_never == FALSE

\* switchFlow's "Si pas de livre charge": !sharedBook
noSharedBook == sharedBook = 0

\* switchFlow(newFlow), called directly (kind "switch") or through
\* ReaderEngine.setFlow ("flow") / toggleFlow ("toggle"): up to await
\* reader.init(), to its return when no book is loaded, or to its throw
switchFlow(f, kind) ==
  LET r == Len(readers) + 1
      x == Len(renditions) + 1
      t == Len(tasks) + 1
      currentCFI == captureCFI
      target == Or(currentCFI, Or(_findFirstChapter(TocOf(sharedBook)), Undefined))
  IN
  IF ~ValidFlow(f)
  THEN /\ tasks' = Append(tasks, [NewTask(kind, "failed") EXCEPT !.flow = f])
       /\ UNCHANGED << state, localStorage, currentReader, readers, renditions, mq >>
  ELSE
     /\ state' = [state EXCEPT !.readerFlow = f]
     /\ localStorage' = [localStorage EXCEPT !.readerFlow = f]
     /\ currentReader' = r
     /\ IF noSharedBook
        THEN /\ readers' = Append(readers, NewReader(readerMode(f)))
             /\ tasks' = Append(tasks,
                   [NewTask(kind, IF kind = "switch" THEN "done" ELSE "s_ret")
                      EXCEPT !.flow = f, !.cfi = currentCFI,
                             !.reader = IF kind = "switch" THEN 0 ELSE r])
             /\ mq' = IF kind = "switch" THEN mq ELSE Append(mq, t)
             /\ UNCHANGED renditions
        ELSE /\ readers' = Append(readers,
                   [ flow |-> readerMode(f), book |-> sharedBook, rendition |-> x,
                     nav |-> (f = "paginated") ])
             /\ renditions' = Append(renditions,
                   NewRendition(sharedBook, readerMode(f), target, t))
             /\ tasks' = Append(tasks, [NewTask(kind, "s_display") EXCEPT !.flow = f,
                                          !.cfi = currentCFI, !.reader = r, !.wait = x])
             /\ UNCHANGED mq

\* ReaderEngine.setFlow(flow): its own validity test, then switchFlow(flow)
SetFlow(f) ==
  /\ NCalls(FlowKinds) < MaxSwitches
  /\ mq = <<>>
  /\ IF f \in Flows
     THEN switchFlow(f, "flow")
     ELSE /\ tasks' = Append(tasks, [NewTask("flow", "done") EXCEPT !.flow = f])
          /\ UNCHANGED << state, localStorage, currentReader, readers, renditions, mq >>
  /\ UNCHANGED << sharedBook, book, isNavigating, handles, db, events, nreloc >>

\* switchFlow(newFlow) of the reader factory, called directly
SwitchFlow(f) ==
  /\ NCalls(FlowKinds) < MaxSwitches
  /\ mq = <<>>
  /\ switchFlow(f, "switch")
  /\ UNCHANGED << sharedBook, book, isNavigating, handles, db, events, nreloc >>

\* ReaderEngine.toggleFlow() -> toggleFlow() of the factory -> switchFlow
ToggleFlow ==
  /\ NCalls(FlowKinds) < MaxSwitches
  /\ mq = <<>>
  /\ switchFlow(IF getFlow = "scrolled" THEN "paginated" ELSE "scrolled", "toggle")
  /\ UNCHANGED << sharedBook, book, isNavigating, handles, db, events, nreloc >>

\* BaseReader.init after await this.rendition.display(), called by switchFlow()
SwitchDisplay(t) ==
  /\ Running(t, "s_display")
  /\ LET r == tasks[t].reader IN
     IF ~tasks[t].ok \/ readers[r].rendition = 0
     THEN /\ tasks' = Finish(t, "failed")
          /\ mq' = Tail(mq)
          /\ UNCHANGED renditions
     ELSE /\ renditions' = [renditions EXCEPT ![readers[r].rendition].listener = r]
          /\ tasks' = [tasks EXCEPT ![t].pc = "s_post"]
          /\ mq' = Tail(mq) \o <<t>>
  /\ UNCHANGED << currentReader, sharedBook, book, isNavigating, readers, handles,
                  state, localStorage, db, events, nreloc >>

\* switchFlow() after await reader.init(): the DOM event, then return
SwitchPost(t) ==
  /\ Running(t, "s_post")
  /\ IF tasks[t].kind = "switch"
     THEN /\ tasks' = Finish(t, "done")
          /\ mq' = Tail(mq)
     ELSE /\ tasks' = [tasks EXCEPT ![t].pc = "s_ret"]
          /\ mq' = Tail(mq) \o <<t>>
  /\ UNCHANGED << currentReader, sharedBook, book, isNavigating, readers, handles,
                  renditions, state, localStorage, db, events, nreloc >>

\* setFlow() after await switchFlow(): updateFlowButton()
SwitchRet(t) ==
  /\ Running(t, "s_ret")
  /\ events' = IF tasks[t].kind = "toggle"
               THEN Emit(Emit(events, "reader:flow-changed"), "status:Mode active")
               ELSE Emit(events, "reader:flow-changed")
  /\ tasks' = Finish(t, "done")
  /\ mq' = Tail(mq)
  /\ UNCHANGED << currentReader, sharedBook, book, isNavigating, readers, handles,
                  renditions, state, localStorage, db, nreloc >>

\* ------------------------------------------------------ chapter navigation
NoNavigation == [ idx |-> state.currentChapterIndex, target |-> Undefined ]

\* a nextChapter that never moves
nextChapter_noop(rd) == NoNavigation

\* BaseReader.nextChapter on reader rd: the new index and the display target
nextChapter(rd) ==
  LET chapters == state.chapters
      index == state.currentChapterIndex
  IN IF index >= Len(chapters) - 1 \/ rd.rendition = 0 \/ Len(chapters) = 0
     THEN NoNavigation
     ELSE IF ~Truthy(chapters[index + 2].href) THEN NoNavigation
     ELSE [ idx |-> index + 1, target |-> chapters[index + 2].href ]

\* BaseReader.prevChapter
prevChapter(rd) ==
  LET chapters == state.chapters
      index == state.currentChapterIndex
  IN IF index <= 0 \/ rd.rendition = 0 \/ Len(chapters) = 0
     THEN NoNavigation
     ELSE IF ~Truthy(chapters[index].href) THEN NoNavigation
     ELSE [ idx |-> index - 1, target |-> chapters[index].href ]

\* BaseReader.goToChapter
goToChapter(rd, href) ==
  LET newIndex == findIndexHref(state.chapters, href)
  IN IF rd.rendition = 0 \/ ~Truthy(href)
     THEN NoNavigation
     ELSE [ idx |-> IF newIndex # -1 THEN newIndex ELSE state.currentChapterIndex,
            target |-> href ]

\* safeNavigation's guard: whether the call is dropped
Dropped == isNavigating

\* hrefs passed to goToChapter: a chapter of book 1 and a broken link
GoToArgs == { Href("c2", ""), Href("missing", "") }

\* ReaderEngine.nextChapter / prevChapter / goToChapter(href), through
\* safeNavigation, up to "await action()"; xs are the render surfaces as the
\* other listeners of the same bus event leave them
NavigateFrom(kind, href, xs) ==
  /\ NCalls({"next", "prev", "goto"}) < MaxNavs
  /\ LET t == Len(tasks) + 1
         nt == [NewTask(kind, "done") EXCEPT !.href = href]
     IN
     IF currentReader = 0
     THEN /\ tasks' = Append(tasks, nt)
          /\ renditions' = xs
          /\ UNCHANGED << isNavigating, state, mq >>
     ELSE IF Dropped
     THEN /\ tasks' = Append(tasks, [nt EXCEPT !.pc = "n_ret"])
          /\ mq' = Append(mq, t)
          /\ renditions' = xs
          /\ UNCHANGED << isNavigating, state >>
     ELSE LET rd == readers[currentReader]
              res == CASE kind = "next" -> nextChapter(rd)
                       [] kind = "prev" -> prevChapter(rd)
                       [] OTHER -> goToChapter(rd, href)
          IN /\ isNavigating' = TRUE
             /\ state' = [state EXCEPT !.currentChapterIndex = res.idx]
             /\ renditions' =
                  IF Truthy(res.target)
                  THEN [xs EXCEPT ![rd.rendition].q =
                          Append(@, [target |-> res.target, waiter |-> 0, by |-> t])]
                  ELSE xs
             /\ tasks' = Append(tasks, [nt EXCEPT !.pc = "n_fin",
                                          !.did = Truthy(res.target)])
             /\ mq' = Append(mq, t)
  /\ UNCHANGED << currentReader, sharedBook, book, readers, handles, localStorage,
                  db, events, nreloc >>

Navigate(kind, href) == NavigateFrom(kind, href, renditions)

NextChapter == Navigate("next", Undefined)
PrevChapter == Navigate("prev", Undefined)
GoToChapter(href) == Navigate("goto", href)

\* ---------------------------------------------------------------- font size
\* a size change without the range test
changeFontSize_unchecked(current, delta) == current + delta

\* BaseReader.changeFontSize: the font size it leaves in the state
changeFontSize(current, delta) ==
  LET newSize == current + delta
  IN IF newSize >= FONT_MIN /\ newSize <= FONT_MAX THEN newSize ELSE current

\* deltas passed to changeFontSize: one step of the font buttons either way,
\* and larger ones
FontDeltas == { -FONT_STEP, FONT_STEP, -60, 60 }

\* ReaderEngine.changeFontSize(delta) -> reader?.changeFontSize(delta), called
\* from a UI handler: no microtask is pending. StateManager.persist writes
\* localStorage and the state only when the new size is in range
ChangeFontSize(delta) ==
  /\ NCalls({"font"}) < MaxFonts
  /\ mq = <<>>
  /\ tasks' = Append(tasks, [NewTask("font", "done") EXCEPT !.delta = delta,
                                                          !.reader = currentReader])
  /\ LET size == IF currentReader = 0 THEN state.fontSize
                 ELSE changeFontSize(state.fontSize, delta)
     IN /\ state' = [state EXCEPT !.fontSize = size]
        /\ localStorage' = IF size # state.fontSize
                           THEN [localStorage EXCEPT !.fontSize = size]
                           ELSE localStorage
  /\ UNCHANGED << currentReader, sharedBook, book, isNavigating, readers, handles,
                  renditions, db, mq, events, nreloc >>

\* --------------------------------------------------------- page navigation
\* rendition.next() / rendition.prev() on surface x
turnPage(xs, x, dir) ==
  IF dir = "next" THEN [xs EXCEPT ![x].nexts = @ + 1]
                  ELSE [xs EXCEPT ![x].prevs = @ + 1]

\* PagedReader.nextPage / prevPage of reader r
readerPage(xs, r, dir) ==
  IF readers[r].rendition = 0 THEN xs ELSE turnPage(xs, readers[r].rendition, dir)

\* a page call that reaches the current reader whatever its mode
enginePage_any(xs, dir) ==
  IF currentReader # 0 THEN readerPage(xs, currentReader, dir) ELSE xs

\* ReaderEngine.nextPage / prevPage: only a PagedReader has the method
enginePage(xs, dir) ==
  IF currentReader # 0 /\ readers[currentReader].flow = "paginated"
  THEN readerPage(xs, currentReader, dir)
  ELSE xs

\* the _nextHandler / _prevHandler listeners of the readers 1..n, run in
\* registration order
RECURSIVE busPage(_, _, _)
busPage(xs, n, dir) ==
  IF n = 0 THEN xs
  ELSE LET before == busPage(xs, n - 1, dir)
       IN IF readers[n].nav THEN readerPage(before, n, dir) ELSE before

PageKinds == {"nextPage", "prevPage", "ev_next", "ev_prev"}

\* ReaderEngine.nextPage() / prevPage() called by the keyboard handler, a
\* task of the event loop: no microtask is pending
PageCall(dir) ==
  /\ NCalls(PageKinds) < MaxPages
  /\ mq = <<>>
  /\ tasks' = Append(tasks, NewTask(IF dir = "next" THEN "nextPage" ELSE "prevPage",
                                    "done"))
  /\ renditions' = enginePage(renditions, dir)
  /\ UNCHANGED << currentReader, sharedBook, book, isNavigating, readers, handles,
                  state, localStorage, db, mq, events, nreloc >>

NextPage == PageCall("next")
PrevPage == PageCall("prev")

\* EventBus.emit('reader:next') / ('reader:prev') by the gesture handler: the
\* listener of EventManager.init, registered first, then the listeners of
\* the paged readers
PageEvent(dir) ==
  IF getFlow = "paginated"
  THEN /\ NCalls(PageKinds) < MaxPages
       /\ mq = <<>>
       /\ tasks' = Append(tasks, NewTask(IF dir = "next" THEN "ev_next" ELSE "ev_prev",
                                         "done"))
       /\ renditions' = busPage(enginePage(renditions, dir), Len(readers), dir)
       /\ UNCHANGED << currentReader, sharedBook, book, isNavigating, readers, handles,
                       state, localStorage, db, mq, events, nreloc >>
  ELSE /\ mq = <<>>
       /\ NavigateFrom(dir, Undefined, busPage(renditions, Len(readers), dir))

EvNext == PageEvent("next")
EvPrev == PageEvent("prev")

\* a wrapper without its finally block: the flag is left as it is
navigatingAfter_kept == isNavigating

\* safeNavigation's finally block: this.isNavigating = false, whether the
\* action returned or threw
navigatingAfter == FALSE

\* safeNavigation after "await action()": the finally block
NavFin(t) ==
  /\ Running(t, "n_fin")
  /\ isNavigating' = navigatingAfter
  /\ tasks' = [tasks EXCEPT ![t].pc = "n_ret"]
  /\ mq' = Tail(mq) \o <<t>>
  /\ UNCHANGED << currentReader, sharedBook, book, readers, handles, renditions,
                  state, localStorage, db, events, nreloc >>

\* ReaderEngine.nextChapter after await this.safeNavigation(): its promise settles
NavRet(t) ==
  /\ Running(t, "n_ret")
  /\ tasks' = Finish(t, "done")
  /\ mq' = Tail(mq)
  /\ UNCHANGED << currentReader, sharedBook, book, isNavigating, readers, handles,
                  renditions, state, localStorage, db, events, nreloc >>

\* ------------------------------------------- relocation and progress saving
\* the payload of a 'relocated' event at location l of book b:
\* { start: { cfi, percentage }, percentage }
LocationWith(l, startFraction, fraction) ==
  [ start |-> [ cfi |-> l, percentage |-> startFraction ], percentage |-> fraction ]

\* the payload epub.js builds at location l of book b: the fraction is in
\* start.percentage, there is no top-level percentage
LocationOf(b, l) == LocationWith(l, Fraction(b, l), Missing)

\* BaseReader._updateProgressIndicator stores
\* Math.round((location.percentage || 0) * 100) in the state;
\* PagedReader._updateProgressIndicator only writes the progress text
updateProgressIndicator(rd, location) ==
  IF rd.flow = "scrolled"
  THEN [state EXCEPT !.readerProgress = basePercent(location)]
  ELSE state

\* the reader whose handler a 'relocated' event of rendition x reaches
ListenerOf(x) == renditions[x].listener

\* the render surface x reports a new location l: _onRelocated, with
\* _saveProgress up to its first await
RelocatedWith(x, l, n, location) ==
  /\ mq = <<>>
  /\ nreloc < n
  /\ ~renditions[x].destroyed
  /\ ListenerOf(x) # 0
  /\ l \in LocsOf(handles[renditions[x].h].content)
  /\ LET r == ListenerOf(x)
         b == handles[renditions[x].h].content
     IN \* ScrollReader / PagedReader._onRelocated: after the base handler,
        \* this._injectChapterNavigation()
        /\ renditions' = InjectBy([renditions EXCEPT ![x].loc = l], r)
        /\ state' = updateProgressIndicator(readers[r], location)
        /\ tasks' = Append(tasks, [NewTask("save", "sp_imp1") EXCEPT
                                     !.reader = r, !.cfi = l, !.wait = x,
                                     !.src = x,
                                     !.pct = progressPercent(readers[r].flow, location)])
  /\ nreloc' = nreloc + 1
  /\ UNCHANGED << currentReader, sharedBook, book, isNavigating, readers, handles,
                  localStorage, db, mq, events >>

RelocatedUpTo(x, l, n) ==
  RelocatedWith(x, l, n, LocationOf(handles[renditions[x].h].content, l))

Relocated(x, l) == RelocatedUpTo(x, l, MaxRelocs)

\* the render surface x renders its section again (a resize, a font change):
\* a new document, then the 'rendered' handler of _setupModeSpecific
Rendered(x) ==
  /\ mq = <<>>
  /\ ~renditions[x].destroyed
  /\ Truthy(renditions[x].loc)
  /\ renditions' = InjectBy([renditions EXCEPT ![x].nav = <<>>], OwnerOf(readers, x))
  /\ UNCHANGED << currentReader, sharedBook, book, isNavigating, readers, handles,
                  tasks, state, localStorage, db, mq, events, nreloc >>

\* the module loader settles a pending dynamic import of _saveProgress.  When
\* a module that is already loaded is delivered is left to the host: at once,
\* or in a later task, after other events have been handled.
ImportDone(t) ==
  /\ mq = <<>>
  /\ tasks[t].pc \in {"sp_imp1", "sp_imp2"}
  /\ mq' = <<t>>
  /\ UNCHANGED << currentReader, sharedBook, book, isNavigating, readers, handles,
                  renditions, tasks, state, localStorage, db, events, nreloc >>

\* _saveProgress after await import('../core/database.js')
SaveImport(t) ==
  /\ Running(t, "sp_imp1")
  /\ tasks' = [tasks EXCEPT ![t].pc = "sp_imp2"]
  /\ mq' = Tail(mq)
  /\ UNCHANGED << currentReader, sharedBook, book, isNavigating, readers, handles,
                  renditions, state, localStorage, db, events, nreloc >>

\* this.book?.spine?.get(cfi)?.href || '' for reader rd
currentHrefOf(rd, cfi) ==
  IF rd.book # 0 /\ ~handles[rd.book].destroyed
     /\ handles[rd.book].st \in {"opened", "ready"}
     /\ CanShow(handles[rd.book].content, cfi)
  THEN ShownLoc(handles[rd.book].content, cfi).doc
  ELSE ""

\* _saveProgress after the second import, up to await DatabaseManager.saveProgress
SaveRun(t) ==
  /\ Running(t, "sp_imp2")
  /\ LET bookId == state.currentBookId
         rd == readers[tasks[t].reader]
         chapterName == findChapter(TocOf(rd.book), currentHrefOf(rd, tasks[t].cfi))
     IN
     IF bookId = 0
     THEN /\ tasks' = Finish(t, "done")
          /\ UNCHANGED state
     ELSE /\ state' = [state EXCEPT !.currentChapter = chapterName,
                         !.currentChapterIndex =
                            IF chapterName # <<>>
                            THEN findIndexLabel(state.chapters, chapterName) ELSE @]
          /\ tasks' = [tasks EXCEPT ![t].pc = "sp_get", ![t].id = bookId,
                                    ![t].name = chapterName]
  /\ mq' = Tail(mq)
  /\ UNCHANGED << currentReader, sharedBook, book, isNavigating, readers, handles,
                  renditions, localStorage, db, events, nreloc >>

\* DatabaseManager.update: await this.get(id) settles, then the put is issued
DbSaveGot(t) ==
  /\ mq = <<>>
  /\ tasks[t].pc = "sp_get"
  /\ IF tasks[t].id \in DOMAIN db
     THEN /\ tasks' = [tasks EXCEPT ![t].pc = "sp_put", ![t].snap = db[tasks[t].id]]
          /\ UNCHANGED mq
     ELSE /\ tasks' = [tasks EXCEPT ![t].pc = "sp_emit"]
          /\ mq' = <<t>>
  /\ UNCHANGED << currentReader, sharedBook, book, isNavigating, readers, handles,
                  renditions, state, localStorage, db, events, nreloc >>

\* DatabaseManager.update: the put of { ...book, ...updates } settles
DbSavePut(t) ==
  /\ mq = <<>>
  /\ tasks[t].pc = "sp_put"
  /\ db' = [db EXCEPT ![tasks[t].id] =
              [tasks[t].snap EXCEPT !.lastCFI = tasks[t].cfi,
                                    !.lastChapter = tasks[t].name]]
  /\ tasks' = [tasks EXCEPT ![t].pc = "sp_emit"]
  /\ mq' = <<t>>
  /\ UNCHANGED << currentReader, sharedBook, book, isNavigating, readers, handles,
                  renditions, state, localStorage, events, nreloc >>

\* _saveProgress after await DatabaseManager.saveProgress(): CHAPTER_CHANGED
SaveEmit(t) ==
  /\ Running(t, "sp_emit")
  /\ events' = Emit(events, "chapter:changed")
  /\ tasks' = Finish(t, "done")
  /\ mq' = Tail(mq)
  /\ UNCHANGED << currentReader, sharedBook, book, isNavigating, readers, handles,
                  renditions, state, localStorage, db, nreloc >>

\* ------------------------------------------------------------- favourites
\* { ...book, ...updates } of DatabaseManager.update
Merge(base, updates) ==
  [ k \in DOMAIN base \cup DOMAIN updates |->
      IF k \in DOMAIN updates THEN updates[k] ELSE base[k] ]

\* FavoritesManager.toggle(id) up to await DatabaseManager.get(id)
Toggle(id) ==
  /\ mq = <<>>
  /\ NCalls({"fav"}) < MaxToggles
  /\ tasks' = Append(tasks, [NewTask("fav", "fv_get") EXCEPT !.id = id])
  /\ UNCHANGED << currentReader, sharedBook, book, isNavigating, readers, handles,
                  renditions, state, localStorage, db, mq, events, nreloc >>

\* toggle: the get settles with the stored record, or rejects
FavGot(t, ok) ==
  /\ mq = <<>>
  /\ tasks[t].pc = "fv_get"
  /\ tasks' = IF ok /\ tasks[t].id \in DOMAIN db
              THEN [tasks EXCEPT ![t].pc = "fv_run", ![t].snap = db[tasks[t].id]]
              ELSE [tasks EXCEPT ![t].pc = "fv_none", ![t].ok = FALSE]
  /\ mq' = <<t>>
  /\ UNCHANGED << currentReader, sharedBook, book, isNavigating, readers, handles,
                  renditions, state, localStorage, db, events, nreloc >>

\* toggle: no record or a rejected get, { success: false }
FavNone(t) ==
  /\ Running(t, "fv_none")
  /\ tasks' = Finish(t, "failed")
  /\ mq' = Tail(mq)
  /\ UNCHANGED << currentReader, sharedBook, book, isNavigating, readers, handles,
                  renditions, state, localStorage, db, events, nreloc >>

\* toggle: favoritedAt flipped on the record read, then DatabaseManager.update(id, book)
\* up to its own await this.get(id)
FavRun(t) ==
  /\ Running(t, "fv_run")
  /\ tasks' = [tasks EXCEPT ![t].pc = "fv_get2",
                  ![t].snap.favoritedAt = IF @ # 0 THEN 0 ELSE 1]
  /\ mq' = Tail(mq)
  /\ UNCHANGED << currentReader, sharedBook, book, isNavigating, readers, handles,
                  renditions, state, localStorage, db, events, nreloc >>

\* DatabaseManager.update for toggle: its get settles, the put of
\* { ...book, ...updates } is issued, updates being the whole record toggle read
FavUpdGot(t) ==
  /\ mq = <<>>
  /\ tasks[t].pc = "fv_get2"
  /\ tasks' = [tasks EXCEPT ![t].pc = "fv_put",
                  ![t].snap = Merge(db[tasks[t].id], tasks[t].snap)]
  /\ UNCHANGED << currentReader, sharedBook, book, isNavigating, readers, handles,
                  renditions, state, localStorage, db, mq, events, nreloc >>

\* DatabaseManager.update for toggle: the put settles
FavPut(t) ==
  /\ mq = <<>>
  /\ tasks[t].pc = "fv_put"
  /\ db' = [db EXCEPT ![tasks[t].id] = tasks[t].snap]
  /\ tasks' = [tasks EXCEPT ![t].pc = "fv_ret"]
  /\ mq' = <<t>>
  /\ UNCHANGED << currentReader, sharedBook, book, isNavigating, readers, handles,
                  renditions, state, localStorage, events, nreloc >>

\* toggle returns { success: true, isFavorite }
FavRet(t) ==
  /\ Running(t, "fv_ret")
  /\ tasks' = Finish(t, "done")
  /\ mq' = Tail(mq)
  /\ UNCHANGED << currentReader, sharedBook, book, isNavigating, readers, handles,
                  renditions, state, localStorage, db, events, nreloc >>

FavStep ==
  \E t \in DOMAIN tasks :
    \/ \E ok \in BOOLEAN : FavGot(t, ok)
    \/ FavNone(t) \/ FavRun(t) \/ FavUpdGot(t) \/ FavPut(t) \/ FavRet(t)

\* ---------------------------------------------------------- specifications
\* the event loop: one microtask
Microtask ==
  \E t \in DOMAIN tasks :
    \/ OpenGot(t) \/ DestroyCont(t) \/ InitFin(t) \/ InitOpened(t) \/ InitReady(t)
    \/ InitDisplay(t) \/ InitPost(t) \/ OpenRet(t)
    \/ CloseFin(t)

\* the storage, the decoder and the render surface settle a pending request
Settle ==
  \/ \E t \in DOMAIN tasks, ok \in BOOLEAN : DbGetDone(t, ok)
  \/ \E h \in DOMAIN handles : BookOpened(h) \/ BookReady(h) \/ BookFailed(h)
  \/ \E x \in DOMAIN renditions, ok \in BOOLEAN : DisplaySettle(x, ok)

FlowStep == \E t \in DOMAIN tasks : SwitchDisplay(t) \/ SwitchPost(t) \/ SwitchRet(t)

NavStep == \E t \in DOMAIN tasks : NavFin(t) \/ NavRet(t)

SaveStep ==
  \/ \E x \in DOMAIN renditions :
       \E l \in LocsOf(handles[renditions[x].h].content) : Relocated(x, l)
  \/ \E t \in DOMAIN tasks :
       \/ ImportDone(t) \/ SaveImport(t) \/ SaveRun(t)
       \/ DbSaveGot(t) \/ DbSavePut(t) \/ SaveEmit(t)

\* open() and close() only
NextOC ==
  \/ \E id \in BookIds : Open(id)
  \/ Close
  \/ Microtask
  \/ Settle

SpecOC == Init /\ [][NextOC]_vars

\* open() and chapter navigation
NextNav ==
  \/ tasks = <<>> /\ Open(1)
  \/ NextChapter
  \/ PrevChapter
  \/ \E h \in GoToArgs : GoToChapter(h)
  \/ Microtask
  \/ Settle
  \/ NavStep

SpecNav == Init /\ [][NextNav]_vars

\* the same, with the event loop running every queued continuation
SpecNavLive == SpecNav /\ WF_vars(Microtask) /\ WF_vars(NavStep)

\* open(), flow switches and relocation events
NextFlow ==
  \/ tasks = <<>> /\ Open(1)
  \/ \E f \in Flows : SetFlow(f)
  \/ Microtask
  \/ Settle
  \/ FlowStep
  \/ SaveStep

SpecFlow == Init /\ [][NextFlow]_vars

\* ids passed to open(): the stored books and 4, an id without a record
OpenArgs == BookIds \cup {4}

\* open() with known and unknown ids
NextNF ==
  \/ \E id \in OpenArgs : Open(id)
  \/ Microtask
  \/ Settle

SpecNF == Init /\ [][NextNF]_vars

\* hrefs passed to goToChapter on book 3: its one document and a broken link
GoToArgsEmpty == { Href("t", ""), Href("missing", "") }

\* chapter navigation in book 3, which has no chapter
NextNavEmpty ==
  \/ tasks = <<>> /\ Open(3)
  \/ NextChapter
  \/ PrevChapter
  \/ \E h \in GoToArgsEmpty : GoToChapter(h)
  \/ Microtask
  \/ Settle
  \/ NavStep

SpecNavEmpty == Init /\ [][NextNavEmpty]_vars

\* opening the books that differ by their table of contents
NextToc ==
  \/ \E id \in TocIds \cup {3} : Open(id)
  \/ Microtask
  \/ Settle

SpecToc == Init /\ [][NextToc]_vars

\* opening the stored books while render surfaces report locations and the
\* progress writes they start are carried out
NextSave ==
  \/ \E id \in BookIds : Open(id)
  \/ Microtask
  \/ Settle
  \/ SaveStep

SpecSave == Init /\ [][NextSave]_vars

\* book 1 open, its render surface reporting several locations in sequence
NextReloc ==
  \/ tasks = <<>> /\ Open(1)
  \/ Microtask
  \/ Settle
  \/ \E x \in DOMAIN renditions :
       \E l \in LocsOf(handles[renditions[x].h].content) :
         RelocatedUpTo(x, l, MaxSeqRelocs)
  \/ \E t \in DOMAIN tasks :
       \/ ImportDone(t) \/ SaveImport(t) \/ SaveRun(t)
       \/ DbSaveGot(t) \/ DbSavePut(t) \/ SaveEmit(t)

SpecReloc == Init /\ [][NextReloc]_vars

\* a book with distinct labels or one with repeated labels open, its render
\* surface reporting a location
NextChap ==
  \/ tasks = <<>> /\ \E id \in {1, 14} : Open(id)
  \/ Microtask
  \/ Settle
  \/ SaveStep

SpecChap == Init /\ [][NextChap]_vars

\* book 1 open, its render surface rendering and reporting locations
NextInject ==
  \/ tasks = <<>> /\ Open(1)
  \/ Microtask
  \/ Settle
  \/ \E x \in DOMAIN renditions : Rendered(x)
  \/ \E x \in DOMAIN renditions :
       \E l \in LocsOf(handles[renditions[x].h].content) :
         RelocatedUpTo(x, l, MaxSeqRelocs)
  \/ \E t \in DOMAIN tasks :
       \/ ImportDone(t) \/ SaveImport(t) \/ SaveRun(t)
       \/ DbSaveGot(t) \/ DbSavePut(t) \/ SaveEmit(t)

SpecInject == Init /\ [][NextInject]_vars

\* book 1 opened in either mode, its render surface reporting locations with
\* any fraction
NextProgress ==
  \/ tasks = <<>> /\ \E f \in Flows : SetFlow(f)
  \/ NCalls({"open", "close"}) = 0 /\ Open(1)
  \/ Microtask
  \/ Settle
  \/ FlowStep
  \/ \E x \in DOMAIN renditions :
       \E l \in LocsOf(handles[renditions[x].h].content) :
         \E f, g \in Fractions : RelocatedWith(x, l, MaxRelocs, LocationWith(l, f, g))
  \/ \E t \in DOMAIN tasks :
       \/ ImportDone(t) \/ SaveImport(t) \/ SaveRun(t)
       \/ DbSaveGot(t) \/ DbSavePut(t) \/ SaveEmit(t)

SpecProgress == Init /\ [][NextProgress]_vars

\* book 1 opened in either mode, at any viewport width
NextSpread ==
  \/ tasks = <<>> /\ \E f \in Flows : SetFlow(f)
  \/ NCalls({"open", "close"}) = 0 /\ Open(1)
  \/ \E t \in DOMAIN tasks : \E w \in Widths : InitReadyAt(t, w)
  \/ Microtask
  \/ Settle
  \/ FlowStep

SpecSpread == Init /\ [][NextSpread]_vars

\* book 1 open and saving its position while its favourite flag is toggled
NextFav ==
  \/ tasks = <<>> /\ Open(1)
  \/ Toggle(1)
  \/ Microtask
  \/ Settle
  \/ SaveStep
  \/ FavStep

SpecFav == Init /\ [][NextFav]_vars

\* opening each stored book, in either reading mode
NextStart ==
  \/ \E id \in BookIds \cup {3} : Open(id)
  \/ Quiet /\ ToggleFlow
  \/ Microtask
  \/ Settle
  \/ FlowStep

SpecStart == Init /\ [][NextStart]_vars

\* font size changes on book 1
NextFont ==
  \/ tasks = <<>> /\ Open(1)
  \/ \E d \in FontDeltas : ChangeFontSize(d)
  \/ Microtask
  \/ Settle

SpecFont == Init /\ [][NextFont]_vars

\* page requests and mode changes on book 1, each made while no call is in
\* progress
NextPaging ==
  \/ tasks = <<>> /\ Open(1)
  \/ Quiet /\ \E f \in Flows : SetFlow(f)
  \/ Quiet /\ NextPage
  \/ Quiet /\ PrevPage
  \/ Quiet /\ EvNext
  \/ Quiet /\ EvPrev
  \/ Microtask
  \/ Settle
  \/ FlowStep
  \/ NavStep

SpecPaging == Init /\ [][NextPaging]_vars

\* open and close of book 1, and every way of changing the reading mode,
\* a mode change being requested while no other call is in progress
NextMode ==
  \/ Open(1)
  \/ Close
  \/ Quiet /\ \E f \in FlowArgs : SetFlow(f)
  \/ Quiet /\ \E f \in FlowArgs : SwitchFlow(f)
  \/ Quiet /\ ToggleFlow
  \/ Microtask
  \/ Settle
  \/ FlowStep

SpecMode == Init /\ [][NextMode]_vars

\* every operation
Next ==
  \/ \E id \in OpenArgs \cup {3} \cup TocIds : Open(id)
  \/ Close
  \/ \E f \in FlowArgs : SetFlow(f)
  \/ \E f \in FlowArgs : SwitchFlow(f)
  \/ ToggleFlow
  \/ NextChapter
  \/ PrevChapter
  \/ \E h \in GoToArgs \cup GoToArgsEmpty : GoToChapter(h)
  \/ NextPage
  \/ PrevPage
  \/ EvNext
  \/ EvPrev
  \/ \E d \in FontDeltas : ChangeFontSize(d)
  \/ Microtask
  \/ Settle
  \/ FlowStep
  \/ NavStep
  \/ SaveStep

Spec == Init /\ [][Next]_vars

\* ------------------------------------------------------------------ claims
\* C1: over any interleaving of open() and close() calls, including calls
\* issued while an earlier open() is still awaiting, at most one render
\* surface (created by renderTo and not yet destroyed) exists at any time.
C1_AtMostOneSurface ==
  Cardinality({ x \in DOMAIN renditions : ~renditions[x].destroyed }) <= 1

\* C2: when open(b) is called while a book is Ready (the current reader has a
\* render surface) and no other call is in flight, that surface has received
\* destroy() by the time the call constructs the reader for b and calls
\* renderTo: every step of such a call that constructs a reader starts in a
\* state where the surface is already destroyed.
C2_DestroyBeforeConstruct ==
  [][ \A t \in DOMAIN tasks :
        ( /\ tasks[t].kind = "open"
          /\ tasks[t].quiet
          /\ tasks[t].prev # 0
          /\ mq # <<>> /\ Head(mq) = t
          /\ Len(readers') > Len(readers) )
        => renditions[tasks[t].prev].destroyed ]_vars

\* C2 witness: an open() issued with a book Ready and nothing in flight has
\* constructed its reader and is waiting for the first display(); the
\* previous surface is destroyed.
C2_Witness ==
  \E t \in DOMAIN tasks :
    /\ tasks[t].kind = "open"
    /\ tasks[t].quiet
    /\ tasks[t].prev # 0
    /\ tasks[t].pc = "i_display"
    /\ tasks[t].reader = currentReader
    /\ renditions[tasks[t].prev].destroyed

\* C3: if open(a) and open(b) overlap, then once both have settled the
\* current book id, the content of the loaded book and the start location
\* used for display belong to one and the same book: every live surface
\* shows the content of the current book, from a start location of that book.
C3_OneBook ==
  ( /\ Quiet
    /\ \E t1, t2 \in DOMAIN tasks :
         /\ t1 < t2
         /\ tasks[t1].kind = "open" /\ tasks[t2].kind = "open"
         /\ ~tasks[t2].quiet )
  => \A x \in DOMAIN renditions :
       ~renditions[x].destroyed =>
         /\ handles[renditions[x].h].content = state.currentBookId
         /\ renditions[x].start.t = "cfi" =>
              renditions[x].start.bk = state.currentBookId

\* C4: calling nextChapter() twice before the first call's promise settles
\* advances the chapter index by exactly one and requests exactly one
\* display(): of two consecutive nextChapter() calls, the second issued while
\* the first is unsettled, at most one requests a display().
C4_OneAdvance ==
  \A t \in DOMAIN tasks :
    ( /\ t > 1
      /\ tasks[t].kind = "next" /\ tasks[t - 1].kind = "next"
      /\ tasks[t - 1].quiet
      /\ ~tasks[t].quiet )
    => ~(tasks[t - 1].did /\ tasks[t].did)

\* C5: while the display() request of a chapter navigation has not settled,
\* further navigation calls are dropped; hence at most one display() request
\* issued by chapter navigation is pending at any time.
C5_OnePendingDisplay ==
  \A x \in DOMAIN renditions :
    Len(SelectSeq(renditions[x].q, LAMBDA req : req.waiter = 0)) <= 1

\* C6: a 'relocated' callback from a render surface that has been replaced
\* triggers no progress write: every _saveProgress run was started by the
\* surface of the reader that was current at that time.
C6_NoStaleRelocation ==
  \A t \in DOMAIN tasks :
    tasks[t].kind = "save" => tasks[t].src = tasks[t].prev

C8_OldSurfaceDestroyed ==
  \A t \in DOMAIN tasks :
    ( /\ tasks[t].kind = "flow"
      /\ tasks[t].pc = "done"
      /\ tasks[t].prev # 0 )
    => renditions[tasks[t].prev].destroyed

\* C9: if open(id) fails after the record was fetched, then once open() has
\* settled the session is fully Closed: no current book id, empty chapter
\* list, chapter index -1, no active reader, book handle destroyed.
C9_FailedOpenClosed ==
  \A t \in DOMAIN tasks :
    ( /\ t = Len(tasks)
      /\ tasks[t].kind = "open"
      /\ tasks[t].quiet
      /\ tasks[t].caught
      /\ tasks[t].pc = "done" )
    => /\ state.currentBookId = 0
       /\ state.chapters = <<>>
       /\ state.currentChapterIndex = -1
       /\ currentReader = 0
       /\ book # 0 => handles[book].destroyed

\* C10: every reader:opening is eventually followed by reader:opened or
\* reader:closed, in particular a failed open emits reader:closed: once every
\* call has settled no reader:opening is left unanswered.
C10_OpeningAnswered == Quiet => ~events.unanswered

\* C11: close() is terminal: if close() is called while an open() is still
\* in progress, then once every call has settled and no new open() has been
\* issued, the session is not Ready (no reader with a render surface is
\* current and no reader:opened was emitted after the close).
C11_CloseTerminal ==
  \A t \in DOMAIN tasks :
    ( /\ t = Len(tasks)
      /\ tasks[t].kind = "close"
      /\ ~tasks[t].quiet
      /\ Quiet )
    => /\ CurrentSurface = 0
       /\ events.count["reader:opened"] = 0

\* C12: after close() settles from Ready (a live current surface, nothing
\* else in flight) the surface has received destroy(), no reader is active,
\* currentBookId is null, the chapter list is empty, currentChapterIndex is
\* -1, and every settled close() has emitted one reader:closed.
C12_ClosedAfterClose ==
  \A t \in DOMAIN tasks :
    ( /\ t = Len(tasks)
      /\ tasks[t].kind = "close"
      /\ tasks[t].quiet
      /\ tasks[t].prev # 0
      /\ tasks[t].pc = "done" )
    => /\ renditions[tasks[t].prev].destroyed
       /\ CurrentSurface = 0
       /\ state.currentBookId = 0
       /\ state.chapters = <<>>
       /\ state.currentChapterIndex = -1
       /\ events.count["reader:closed"] =
            Cardinality({ u \in DOMAIN tasks :
                            tasks[u].kind = "close" /\ tasks[u].pc = "done" })

\* C12 witness: a close() issued on a Ready session of book 1, whose chapter
\* list had four entries, has settled.
C12_Witness ==
  \E t \in DOMAIN tasks :
    /\ t = Len(tasks)
    /\ tasks[t].kind = "close"
    /\ tasks[t].quiet
    /\ tasks[t].prev # 0
    /\ handles[renditions[tasks[t].prev].h].content = 1
    /\ tasks[t].idx0 = 0
    /\ tasks[t].pc = "done"
    /\ state.chapters = <<>>
    /\ events.count["reader:closed"] = 1

\* C13: close() on an already Closed session is a no-op: a close() that is
\* the only call ever issued emits no reader:closed.
C13_CloseIdempotent ==
  (Len(tasks) = 1 /\ tasks[1].kind = "close") => events.count["reader:closed"] = 0

\* C14: open(id) for an id without a stored book (the storage answering
\* normally) reports 'not found' and
\* leaves the session Closed afterwards (no active reader, no current book
\* id), any previously open book having been torn down; stated for a call
\* issued while a book is Ready.
C14_NotFoundClosed ==
  \A t \in DOMAIN tasks :
    ( /\ t = Len(tasks)
      /\ tasks[t].kind = "open"
      /\ tasks[t].id \notin DOMAIN db
      /\ tasks[t].ok
      /\ tasks[t].quiet
      /\ tasks[t].prev # 0
      /\ tasks[t].pc = "done" )
    => /\ events.count["status:Livre non trouve"] >= 1
       /\ CurrentSurface = 0
       /\ state.currentBookId = 0

\* C15: a switchFlow call with a mode other than 'scrolled' or 'paginated'
\* fails with an error, a setFlow call with such a mode returns, and neither
\* changes the reading mode, the stored preference, the current reader or
\* any rendering surface.
C15_InvalidModeRejected ==
  [][ ( /\ Len(tasks') = Len(tasks) + 1
        /\ tasks'[Len(tasks')].kind \in FlowKinds
        /\ tasks'[Len(tasks')].flow \notin Flows )
      => /\ state' = state
         /\ localStorage' = localStorage
         /\ currentReader' = currentReader
         /\ readers' = readers
         /\ renditions' = renditions
         /\ tasks'[Len(tasks')].pc =
              IF tasks'[Len(tasks')].kind = "switch" THEN "failed" ELSE "done" ]_vars

C15_Witness ==
  \E t \in DOMAIN tasks :
    /\ tasks[t].kind = "switch" /\ tasks[t].flow = "vertical"
    /\ tasks[t].pc = "failed" /\ tasks[t].prev # 0
    /\ CurrentSurface = tasks[t].prev
    /\ \E u \in DOMAIN tasks :
         tasks[u].kind = "flow" /\ tasks[u].flow = "vertical" /\ tasks[u].pc = "done"

\* C16: the in-memory reading mode is always the mode of the last accepted
\* mode change (the default before any), it equals the persisted preference
\* once one is stored, no open or close changes it, and the surface an open
\* creates is rendered in that mode.
C16_ModePersists ==
  [][ LET switches == { t \in DOMAIN tasks :
                          tasks[t].kind \in FlowKinds /\ tasks[t].flow \in Flows }
          last == CHOOSE t \in switches : \A u \in switches : u <= t
          mode == IF switches = {} THEN READER_FLOW_DEFAULT ELSE tasks[last].flow
          kept == /\ state.readerFlow = mode
                  /\ localStorage.readerFlow = IF switches = {} THEN "" ELSE mode
          x == Len(renditions')
      IN
      /\ kept
      /\ kept'
      /\ ( /\ Len(renditions') = Len(renditions) + 1
           /\ renditions'[x].q[1].waiter \in DOMAIN tasks
           /\ tasks[renditions'[x].q[1].waiter].kind = "open" )
         => /\ renditions'[x].flow = mode
            /\ readers'[currentReader'].flow = mode
            /\ state'.readerFlow = mode ]_vars

C16_Witness ==
  \E t \in DOMAIN tasks :
    /\ tasks[t].kind = "open" /\ tasks[t].pc = "done" /\ t = Len(tasks)
    /\ CurrentSurface # 0
    /\ renditions[CurrentSurface].flow = "paginated"
    /\ state.readerFlow = "paginated"
    /\ \E c \in 1..(t-1) : /\ tasks[c].kind = "close"
                            /\ \E f \in 1..(c-1) : /\ tasks[f].kind \in {"switch", "toggle"}
                                                    /\ tasks[f].flow = "paginated"

\* C17: a mode change with a valid mode while no book is loaded creates no
\* rendering surface, leaves the session inactive, and leaves the current
\* book id, the chapter list and the current chapter index unchanged; only
\* the mode and the stored preference are written.
C17_PreferenceOnly ==
  [][ ( /\ Len(tasks') = Len(tasks) + 1
        /\ tasks'[Len(tasks')].kind \in FlowKinds
        /\ tasks'[Len(tasks')].flow \in Flows
        /\ sharedBook = 0 )
      => /\ renditions' = renditions
         /\ CurrentSurface' = 0
         /\ state' = [state EXCEPT !.readerFlow = tasks'[Len(tasks')].flow]
         /\ localStorage' = [localStorage EXCEPT !.readerFlow = tasks'[Len(tasks')].flow]
         /\ sharedBook' = 0
         /\ tasks'[Len(tasks')].pc \in {"done", "s_ret"} ]_vars

C17_Witness ==
  \E t \in DOMAIN tasks :
    /\ tasks[t].kind = "switch" /\ tasks[t].flow = "paginated" /\ tasks[t].pc = "done"
    /\ t = Len(tasks) /\ t > 1 /\ tasks[t - 1].kind = "close"
    /\ tasks[t].prev = 0 /\ sharedBook = 0 /\ CurrentSurface = 0
    /\ renditions # <<>>
    /\ state.readerFlow = "paginated" /\ state.currentBookId = 0

\* C18: with a book Ready and no call in progress, prevChapter at index 0
\* and nextChapter at the last index change nothing and request no display;
\* at any other index they move the index by exactly one and request the
\* display of the neighbouring chapter's href on the current surface.
C18_ChapterBounds ==
  [][ LET nt == tasks'[Len(tasks')]
          x == CurrentSurface
          index == state.currentChapterIndex
          last == Len(state.chapters) - 1
          step == IF nt.kind = "next" THEN 1 ELSE -1
          edge == IF nt.kind = "next" THEN index = last ELSE index = 0
      IN
      ( /\ Len(tasks') = Len(tasks) + 1
        /\ nt.kind \in {"next", "prev"}
        /\ Quiet /\ x # 0 /\ ~renditions[x].destroyed
        /\ index \in 0..last )
      => IF edge
         THEN /\ state' = state
              /\ renditions' = renditions
         ELSE /\ state' = [state EXCEPT !.currentChapterIndex = index + step]
              /\ renditions' = [renditions EXCEPT ![x].q =
                    Append(@, [target |-> state.chapters[index + step + 1].href,
                               waiter |-> 0, by |-> Len(tasks')])] ]_vars

C18_Witness ==
  /\ Len(tasks) = 3
  /\ tasks[2].kind = "prev" /\ tasks[2].quiet /\ tasks[2].prev # 0
  /\ tasks[2].idx0 = 0 /\ ~tasks[2].did
  /\ tasks[3].kind = "next" /\ tasks[3].quiet /\ tasks[3].prev # 0
  /\ tasks[3].idx0 = 0 /\ tasks[3].did
  /\ state.currentChapterIndex = 1

\* C19: for an open book whose chapter list is empty, nextChapter,
\* prevChapter and goToChapter(h) request no display and leave the current
\* chapter index as it was.
C19_EmptyNoNavigation ==
  \A t \in DOMAIN tasks :
    ( /\ tasks[t].kind \in {"next", "prev", "goto"}
      /\ tasks[t].quiet /\ tasks[t].prev # 0
      /\ state.chapters = <<>> )
    => /\ ~tasks[t].did
       /\ state.currentChapterIndex = tasks[t].idx0

\* C20: a goToChapter call made while the open() of the book has not yet
\* settled requests no display.
C20_NoGoToWhileOpening ==
  \A t \in DOMAIN tasks :
    ( /\ tasks[t].kind = "goto"
      /\ tasks[1].kind = "open" /\ ~Settled(1) )
    => ~tasks[t].did

\* C21: when the render surface has rejected the display() requested by a
\* chapter navigation made on a Ready book, and nothing else has happened
\* since, the surface is still the current one, it is not destroyed, and
\* currentChapterIndex has the value it had before the call.
C21_LastGoodIndex ==
  \A t \in DOMAIN tasks :
    ( /\ tasks[t].kind \in {"next", "prev", "goto"}
      /\ tasks[t].quiet /\ tasks[t].prev # 0
      /\ tasks[t].did /\ ~tasks[t].ok
      /\ t = Len(tasks) /\ nreloc = tasks[t].rc )
    => /\ CurrentSurface = tasks[t].prev
       /\ ~renditions[tasks[t].prev].destroyed
       /\ state.currentChapterIndex = tasks[t].idx0

\* C22: once the display() of a chapter navigation has been rejected and
\* every call has settled, a status message has been emitted for it, beyond
\* the one message of the open.
C22_RejectionReported ==
  LET c == events.count
      messages == c["status:Livre non trouve"] + c["status:Erreur lors de l'ouverture"]
                  + c["status:Erreur lors du chargement"] + c["status:Livre charge"]
                  + c["status:Reprise de la lecture"] + c["status:Mode active"]
      opens == Cardinality({ u \in DOMAIN tasks : tasks[u].kind = "open" })
  IN
  \A t \in DOMAIN tasks :
    ( /\ tasks[t].kind \in {"next", "prev", "goto"}
      /\ tasks[t].quiet /\ tasks[t].prev # 0
      /\ tasks[t].did /\ ~tasks[t].ok
      /\ Quiet /\ mq = <<>> )
    => messages > opens

\* C23: in paginated mode with a book Ready, one page-forward request, a
\* nextPage() call or one 'reader:next' event, makes exactly one next() call
\* on the current render surface and none on any other surface; likewise
\* for page-backward requests and prev().
C23_OnePageTurn ==
  [][ LET nt == tasks'[Len(tasks')]
          x == CurrentSurface
          fwd == nt.kind \in {"nextPage", "ev_next"}
      IN
      ( /\ Len(tasks') = Len(tasks) + 1
        /\ nt.kind \in PageKinds
        /\ \A u \in DOMAIN tasks : tasks[u].pc = "done" /\ tasks[u].ok
        /\ getFlow = "paginated"
        /\ x # 0 /\ ~renditions[x].destroyed /\ renditions[x].flow = "paginated" )
      => /\ renditions'[x].nexts = renditions[x].nexts + (IF fwd THEN 1 ELSE 0)
         /\ renditions'[x].prevs = renditions[x].prevs + (IF fwd THEN 0 ELSE 1)
         /\ \A y \in DOMAIN renditions : y # x => renditions'[y] = renditions[y] ]_vars

\* C24: in scrolled mode a ReaderEngine.nextPage() or prevPage() call makes
\* no next() or prev() call on any render surface and changes nothing of
\* the session.
C24_ScrolledPageNoop ==
  [][ LET nt == tasks'[Len(tasks')]
      IN
      ( /\ Len(tasks') = Len(tasks) + 1
        /\ nt.kind \in {"nextPage", "prevPage"}
        /\ getFlow = "scrolled" )
      => /\ renditions' = renditions
         /\ state' = state
         /\ readers' = readers /\ currentReader' = currentReader
         /\ isNavigating' = isNavigating /\ mq' = mq /\ events' = events ]_vars

C24_Witness ==
  \E t \in DOMAIN tasks :
    /\ tasks[t].kind = "nextPage" /\ t = Len(tasks)
    /\ tasks[t].prev # 0 /\ CurrentSurface = tasks[t].prev
    /\ renditions[CurrentSurface].flow = "scrolled"
    /\ state.readerFlow = "scrolled"
    /\ \E u \in 1..(t - 1) :
         tasks[u].kind = "flow" /\ tasks[u].flow = "paginated" /\ tasks[u].pc = "done"
    /\ \A x \in DOMAIN renditions : renditions[x].nexts = 0

\* C25: for a current size s in [MIN, MAX] and any delta, changeFontSize(delta)
\* on the current reader ends with fontSize = min(MAX, max(MIN, s + delta)).
C25_FontClamped ==
  \A t \in DOMAIN tasks :
    ( /\ tasks[t].kind = "font" /\ tasks[t].reader # 0 /\ t = Len(tasks)
      /\ tasks[t].fs0 >= FONT_MIN /\ tasks[t].fs0 <= FONT_MAX )
    => LET want == tasks[t].fs0 + tasks[t].delta
       IN state.fontSize = IF want > FONT_MAX THEN FONT_MAX
                           ELSE IF want < FONT_MIN THEN FONT_MIN ELSE want

\* C26: when s + delta exceeds MAX, two changeFontSize(delta) calls in a row
\* leave the same fontSize as the first of them alone.
C26_FontIdempotentAtMax ==
  \A t \in DOMAIN tasks :
    ( /\ t > 1 /\ t = Len(tasks)
      /\ tasks[t].kind = "font" /\ tasks[t - 1].kind = "font"
      /\ tasks[t].reader # 0 /\ tasks[t - 1].reader # 0
      /\ tasks[t].delta = tasks[t - 1].delta
      /\ tasks[t - 1].fs0 + tasks[t - 1].delta > FONT_MAX )
    => state.fontSize = tasks[t].fs0

C26_Witness ==
  \E t \in DOMAIN tasks :
    /\ t > 1 /\ t = Len(tasks)
    /\ tasks[t].kind = "font" /\ tasks[t - 1].kind = "font"
    /\ tasks[t].reader # 0 /\ tasks[t - 1].reader # 0
    /\ tasks[t].delta = 60 /\ tasks[t - 1].delta = 60
    /\ tasks[t - 1].fs0 = 160
    /\ state.fontSize = 160

\* C27: the surface an open() creates is asked to display the saved location
\* of the book when one is stored (book 2), otherwise the href of the first
\* chapter-like entry of the table of contents (book 1: c1, after Cover),
\* otherwise undefined (book 3), in either reading mode.
C27_StartLocation ==
  \A t \in DOMAIN tasks :
    ( /\ tasks[t].kind = "open" /\ tasks[t].quiet
      /\ \A u \in DOMAIN tasks : u > t => tasks[u].quiet
      /\ tasks[t].reader # 0
      /\ readers[tasks[t].reader].rendition # 0 )
    => LET x == readers[tasks[t].reader].rendition
       IN /\ handles[renditions[x].h].content = tasks[t].id
          /\ renditions[x].flow = readers[tasks[t].reader].flow
          /\ renditions[x].start =
               CASE tasks[t].id = 1 -> Href("c1", "")
                 [] tasks[t].id = 2 -> Cfi(2, "t", 1)
                 [] OTHER -> Undefined

C27_Witness ==
  \E t \in DOMAIN tasks :
    /\ tasks[t].kind = "open" /\ tasks[t].quiet /\ tasks[t].id = 2
    /\ t = Len(tasks)
    /\ CurrentSurface # 0 /\ tasks[t].reader = currentReader
    /\ renditions[CurrentSurface].q = <<>>
    /\ renditions[CurrentSurface].flow = "paginated"
    /\ renditions[CurrentSurface].start = Cfi(2, "t", 1)
    /\ \E u \in 1..(t - 1) : tasks[u].kind = "open" /\ tasks[u].id = 1

\* C28: the chapter list an open() derives from the table of contents of
\* the book has as many entries as the tree has nodes, counted recursively.
C28_EveryNodeListed ==
  LET RECURSIVE count(_)
      count(items) ==
        IF items = <<>> THEN 0
        ELSE 1 + count(Head(items).subitems) + count(Tail(items))
  IN
  \A t \in DOMAIN tasks :
    ( /\ tasks[t].kind = "open" /\ tasks[t].quiet
      /\ \A u \in DOMAIN tasks : u > t => tasks[u].quiet
      /\ tasks[t].reader # 0 /\ tasks[t].reader = currentReader
      /\ readers[currentReader].rendition # 0 )
    => Len(state.chapters) = count(TocOf(renditions[CurrentSurface].h))

\* C29: with no saved location, the start location of an open() is the href
\* of the first node of the table of contents, in pre-order, whose label
\* contains 'chapter' or 'chapitre', and undefined when there is none.
C29_FirstChapterPreOrder ==
  LET RECURSIVE flat(_)
      flat(items) ==
        IF items = <<>> THEN <<>>
        ELSE <<Head(items)>> \o flat(Head(items).subitems) \o flat(Tail(items))
      marked(item) == \E i \in 1..Len(item.label) :
                        toLowerCase(item.label[i]) \in {"chapter", "chapitre"}
      first(nodes) ==
        IF \E i \in 1..Len(nodes) : marked(nodes[i])
        THEN nodes[CHOOSE i \in 1..Len(nodes) :
                     marked(nodes[i]) /\ \A j \in 1..(i - 1) : ~marked(nodes[j])].href
        ELSE Undefined
  IN
  \A t \in DOMAIN tasks :
    ( /\ tasks[t].kind = "open" /\ tasks[t].quiet
      /\ \A u \in DOMAIN tasks : u > t => tasks[u].quiet
      /\ tasks[t].reader # 0 /\ tasks[t].reader = currentReader
      /\ readers[currentReader].rendition # 0
      /\ ~Truthy(tasks[t].cfi) )
    => renditions[CurrentSurface].start = first(flat(TocOf(renditions[CurrentSurface].h)))

\* C30: every progress write stores, under a book id, a location reported by
\* a render surface of that same book: the location stored in a book's record
\* is a location of that book, also when open(b) starts while a progress write
\* for book a is pending.
C30_ProgressSameBook ==
  \A b \in DOMAIN db : Truthy(db[b].lastCFI) => db[b].lastCFI.bk = b

\* C31: when several relocation events of the open book occur in sequence,
\* once all resulting saves have settled the persisted location of the book is
\* the location of the most recent relocation event.
C31_LastWriteWins ==
  LET saves == { t \in DOMAIN tasks : tasks[t].kind = "save" }
      last == CHOOSE t \in saves : \A u \in saves : u <= t
  IN ( /\ Cardinality(saves) >= 2
       /\ \A t \in saves : tasks[t].pc = "done" /\ tasks[t].id = 1 )
     => db[1].lastCFI = tasks[last].cfi

\* C32: if a mode switch is called again before a previous switch has
\* settled, then once both have settled the book is displayed at the location
\* captured before the first switch, in the mode requested last, with exactly
\* one live render surface.
C32_OverlappingSwitches ==
  \A t, u \in DOMAIN tasks :
    ( /\ t < u
      /\ tasks[t].kind \in FlowKinds /\ tasks[u].kind \in FlowKinds
      /\ tasks[t].quiet /\ ~tasks[u].quiet
      /\ Truthy(tasks[t].loc0)
      /\ \A v \in DOMAIN tasks : tasks[v].kind = "save" => v < t
      /\ \A v \in DOMAIN tasks : tasks[v].pc = "done" /\ tasks[v].ok )
    => /\ CurrentSurface # 0
       /\ renditions[CurrentSurface].loc = tasks[t].loc0
       /\ renditions[CurrentSurface].flow = tasks[u].flow
       /\ Cardinality({ x \in DOMAIN renditions : ~renditions[x].destroyed }) = 1

\* C33: after a relocation to a position inside chapter c has been processed,
\* currentChapterIndex is the index in the chapter list of the entry whose
\* href matched c (the first entry of c's document), also when several
\* entries carry the same label.
C33_IndexOfMatchedEntry ==
  \A t \in DOMAIN tasks :
    ( /\ tasks[t].kind = "save" /\ tasks[t].pc = "done" /\ tasks[t].id # 0
      /\ \A u \in DOMAIN tasks : tasks[u].pc = "done" /\ tasks[u].ok
      /\ \E i \in 1..Len(state.chapters) : state.chapters[i].href.doc = tasks[t].cfi.doc )
    => LET i == CHOOSE k \in 1..Len(state.chapters) :
                  /\ state.chapters[k].href.doc = tasks[t].cfi.doc
                  /\ \A j \in 1..(k - 1) : state.chapters[j].href.doc # tasks[t].cfi.doc
       IN state.currentChapterIndex = i - 1

\* C34: whenever the session is Ready and no navigation or relocation
\* processing is pending, currentChapterIndex is the index of the chapter the
\* render surface is displaying (the first entry of the displayed document),
\* including right after open().
C34_IndexOfDisplayedChapter ==
  ( /\ Quiet
    /\ \A t \in DOMAIN tasks : tasks[t].pc = "done" /\ tasks[t].ok
    /\ CurrentSurface # 0
    /\ renditions[CurrentSurface].q = <<>>
    /\ Truthy(renditions[CurrentSurface].loc)
    /\ \E i \in 1..Len(state.chapters) :
          state.chapters[i].href.doc = renditions[CurrentSurface].loc.doc )
  => LET d == renditions[CurrentSurface].loc.doc
         i == CHOOSE k \in 1..Len(state.chapters) :
                /\ state.chapters[k].href.doc = d
                /\ \A j \in 1..(k - 1) : state.chapters[j].href.doc # d
     IN state.currentChapterIndex = i - 1

\* C35: after any sequence of 'rendered' and 'relocated' events, once they
\* have been processed, the rendered content holds at most one end-of-chapter
\* controls block; the block is present iff the current chapter has a previous
\* or a next chapter, with a 'previous' control iff index > 0 and a 'next'
\* control iff index < length-1.
C35_ChapterControls ==
  ( /\ \A t \in DOMAIN tasks : tasks[t].pc = "done" /\ tasks[t].ok
    /\ CurrentSurface # 0
    /\ renditions[CurrentSurface].q = <<>>
    /\ Truthy(renditions[CurrentSurface].loc) )
  => LET content == renditions[CurrentSurface].nav
         index == state.currentChapterIndex
         hasPrev == index > 0
         hasNext == index < Len(state.chapters) - 1
     IN /\ Len(content) <= 1
        /\ (content # <<>>) <=> (hasPrev \/ hasNext)
        /\ content # <<>> =>
             /\ content[1].prev <=> hasPrev
             /\ content[1].next <=> hasNext

\* C36: the navigation-in-flight flag is always eventually cleared, also when
\* the display() of the navigation is rejected, so a later navigation call is
\* never blocked forever.
C36_FlagCleared == isNavigating ~> ~isNavigating

\* a navigation whose display() was rejected has returned and the flag is clear
C36_Witness ==
  \E t \in DOMAIN tasks :
    /\ tasks[t].kind \in {"next", "prev", "goto"}
    /\ tasks[t].did /\ ~tasks[t].ok
    /\ tasks[t].pc = "done"
    /\ ~isNavigating

\* C37: after PagedReader.destroy(), that reader's 'reader:prev' and
\* 'reader:next' listeners are no longer registered, over any number of
\* open/close cycles in paginated mode.
C37_ListenersRemoved ==
  \A r \in DOMAIN readers :
    (readers[r].flow = "paginated" /\ readers[r].rendition = 0) => ~readers[r].nav

\* C38: for every relocation event, in both flow modes, the computed progress
\* percentage is an integer within [0,100], whatever fraction the render
\* surface reports.
C38_ProgressInRange ==
  \A t \in DOMAIN tasks : tasks[t].kind = "save" => tasks[t].pct \in 0..100

\* C39: the paginated configuration enables two-page spread iff the viewport
\* is not narrow and its width exceeds the wide-screen threshold (1200); the
\* scrolled configuration never enables spread.
C39_SpreadIffWide ==
  \A x \in DOMAIN renditions :
    (renditions[x].spread # "none")
      <=> ( /\ renditions[x].flow = "paginated"
            /\ ~isMobile(renditions[x].width)
            /\ renditions[x].width > SPREAD_MIN_WIDTH )

\* C40: when a saveProgress and a toggle on the same book have both settled,
\* the stored record has the location that was saved and the favourite status
\* opposite to the one it started with.
C40_BothTakeEffect ==
  \A s, f \in DOMAIN tasks :
    ( /\ tasks[s].kind = "save" /\ tasks[s].pc = "done" /\ tasks[s].id # 0
      /\ tasks[f].kind = "fav" /\ tasks[f].pc = "done"
      /\ tasks[f].id = tasks[s].id
      /\ \A u \in DOMAIN tasks :
           tasks[u].kind \in {"save", "fav"} => u \in {s, f} )
    => /\ db[tasks[s].id].lastCFI = tasks[s].cfi
       /\ (db[tasks[s].id].favoritedAt # 0)
            # (InitialDb[tasks[s].id].favoritedAt # 0)

====
